---- MODULE Spec2Model ----
(***************************************************************************)
(* The recognition page of the face-recognition front end.                 *)
(* src/unnamed/part_000 holds two variants of it: lines 1-191 render a     *)
(* list of results ("multi"), lines 193-434 a single best match            *)
(* ("single").  Both have the same globals, the same toggle handler and    *)
(* the same try/catch/finally skeleton in loopRecognize; they differ in    *)
(* how a parsed response is rendered.  The variable `page` tells which     *)
(* variant is loaded.  The single page has, besides, a register button,    *)
(* a list of the registered faces and a Clear all button.                  *)
(*                                                                         *)
(* JavaScript runs one callback at a time; a callback runs to its next     *)
(* await.  Each action below is one such run-to-completion step: a click   *)
(* handler, a timer callback, or the continuation of loopRecognize after   *)
(* one of its three awaits (toBlob, fetch, res.json).                      *)
(*                                                                         *)
(* The arithmetic of the overlay renderer (box mapping, colorForId, label  *)
(* placement) is modelled as pure functions and exercised by its own       *)
(* specification, DrawSpec.  The page of src/static/register.js has its     *)
(* specification, RegSpec, and so has the identities page of               *)
(* src/static/identities.js, IdSpec.                                       *)
(***************************************************************************)
EXTENDS Integers, Sequences

\* ------------------------------------------------------------------ bounds

\* The longest identity key colorForId is applied to.
MaxKeyLen == 7

\* Live "threads" of a page (handlers suspended at an await, pending
\* loopRecognize timers, pending dismiss timers) the user is allowed to
\* pile up by clicking.
MaxThreads == 2

\* ------------------------------------------------------- program constants

\* A canvas made by document.createElement('canvas') is 300 x 150.
DefaultCanvasW == 300
DefaultCanvasH == 150

\* ------------------------------------------------------------ input domains

NoSize == <<0, 0>>
\* Native resolutions the camera may deliver.
CamSizes == {<<640, 480>>, <<1280, 720>>}

Pages == {"multi", "single"}

\* A face as the server reports it: an entry of data.results on the multi
\* page, the response object itself on the single page.  bbox is the length
\* of the bbox array (4 is well formed, 0 is no array); score, face, at tell
\* whether score, face_image_url, recognized_at are present; pid "" is an
\* absent personnel_id.
Ann == [name |-> "ann", pid |-> "p1", recognized |-> TRUE,  score |-> TRUE,
        bbox |-> 4, face |-> TRUE,  at |-> TRUE]
Bob == [name |-> "bob", pid |-> "",   recognized |-> FALSE, score |-> FALSE,
        bbox |-> 4, face |-> FALSE, at |-> FALSE]
Cat == [name |-> "cat", pid |-> "",   recognized |-> TRUE,  score |-> TRUE,
        bbox |-> 3, face |-> TRUE,  at |-> FALSE]
Dan == [name |-> "dan", pid |-> "",   recognized |-> TRUE,  score |-> FALSE,
        bbox |-> 4, face |-> FALSE, at |-> FALSE]
\* An object with none of these fields.
Blank == [name |-> "", pid |-> "", recognized |-> FALSE, score |-> FALSE,
          bbox |-> 0, face |-> FALSE, at |-> FALSE]

\* Parsed bodies of /api/recognize, as res.json() may deliver them to either
\* page: the JSON value null; an object with an array in `results`; an
\* object with the fields of one match at its top level (with none of them:
\* any other object, such as an error body {detail: ...}).
NullBody == [null |-> TRUE, hasResults |-> FALSE, results |-> <<>>, top |-> Blank]
ListBody(rs) == [null |-> FALSE, hasResults |-> TRUE, results |-> rs, top |-> Blank]
MatchBody(m) == [null |-> FALSE, hasResults |-> FALSE, results |-> <<>>, top |-> m]
Responses ==
  {NullBody}
    \cup { ListBody(rs) : rs \in { <<>>, <<Ann>>, <<Bob>>, <<Bob, Ann>>, <<Cat, Ann>>,
                                    <<Ann, Ann>> } }
    \cup { MatchBody(m) : m \in {Blank, Ann, Bob, Cat, Dan} }

Stages == {"blobNull", "blob", "fetch", "json"}

\* --------------------------------------------------------------------- state

VARIABLES
  page,           \* which variant of the page is loaded
  recognizing,    \* let recognizing
  recogTimer,     \* let recogTimer: "null", or the handle of a timer that is
                  \* still "pending" or has "fired"
  toggleText,     \* recognizeToggle.textContent
  timers,         \* how many setTimeout(loopRecognize, 1000) are pending
  cycles,         \* loopRecognize invocations suspended at an await: stage -> how many
  surface,        \* what is painted on the draw canvas, in paint order
  drawDims,       \* <<draw.width, draw.height>>
  videoDims,      \* <<video.videoWidth, video.videoHeight>>
  panel,          \* currentName, currentScore, thumbWrap, lastFace, lastFaceTime
  message,        \* message.textContent and message.className
  msgTimers,      \* pending dismiss timers of showMessage
  cam,            \* where startCamera is
  last,           \* the step taken last, and what it found: whether the surface
                  \* was painted and whether it had the video's size
  call,           \* one call of a pure function of the renderer: its name, its
                  \* arguments, whether it has returned, and what it returned
  nameInput,      \* nameInput.value
  personnelIdInput, \* personnelIdInput.value (register.js)
  regs,           \* register click handlers suspended at an await: stage -> how many
  selected,       \* let selected (identities.js): <<>> for null, <<rec>> otherwise
  editHidden,     \* whether editPanel has the class 'hidden'
  editName,       \* editName.value
  rows,           \* the identities facesList shows (on the identities page each
                  \* with its Edit and Delete)
  jobs            \* refreshFacesList, Clear all, Save and Delete handlers
                  \* suspended at an await: stage -> how many

vars == <<page, recognizing, recogTimer, toggleText, timers, cycles, surface, drawDims,
          videoDims, panel, message, msgTimers, cam, last, call,
          nameInput, personnelIdInput, regs,
          selected, editHidden, editName, rows, jobs>>

\* ------------------------------------------------------------------ helpers

InFlight == cycles["blobNull"] + cycles["blob"] + cycles["fetch"] + cycles["json"]
Threads == InFlight + timers

Painted == surface # <<>>

Event(e) == last' = [ev |-> e, had |-> Painted, fit |-> drawDims = videoDims]

RegInFlight ==
  regs["blobNull"] + regs["blob"] + regs["fetch"] + regs["errJson"] + regs["okJson"]

JobStages == {"list", "listJson", "clear", "clearList", "clearListJson",
              "rename", "renameErr", "delete", "deleteErr"}

JobsInFlight ==
  jobs["list"] + jobs["listJson"] + jobs["clear"] + jobs["clearList"]
    + jobs["clearListJson"] + jobs["rename"] + jobs["renameErr"]
    + jobs["delete"] + jobs["deleteErr"]

\* Everything under way on the page that will run a callback of its own.
Busy == Threads + RegInFlight + JobsInFlight + msgTimers

\* refreshFacesList up to await fetch('/api/faces').
StartRefresh(js) == [js EXCEPT !["list"] = @ + 1]

\* A page with the register button: register.js, or the single-result
\* variant of part_000.
RegPages == {"register", "single"}

\* A page with the list of registered faces.
ListPages == {"identities", "single"}

\* Pending loopRecognize timers whose handle recogTimer does not hold.
OtherTimers == timers - (IF recogTimer = "pending" THEN 1 ELSE 0)

\* The side panel with no current match (lines 176-180, 405-409).  The
\* elements thumbWrap, lastFace and lastFaceTime are taken to exist.
EmptyPanel ==
  [name |-> <<"-">>, score |-> "", thumbHidden |-> TRUE, src |-> "", time |-> ""]

\* showMessage(text, isError)
ShowMessage(text, isError) ==
  /\ message' = [text |-> text,
                 class |-> IF isError THEN "message error" ELSE "message "]
  /\ msgTimers' = IF text # "" THEN msgTimers + 1 ELSE msgTimers

\* ---------------------------------------------------------------- rendering

\* data.results.find(r => r.recognized) || data.results[0]
First(rs) ==
  IF \E i \in 1..Len(rs) : rs[i].recognized
    THEN rs[CHOOSE i \in 1..Len(rs) :
              rs[i].recognized /\ \A j \in 1..(i-1) : ~rs[j].recognized]
    ELSE rs[1]

\* The thumbnail part of the side panel: shown and reloaded when the match
\* has a face_image_url, left as it was otherwise.
Thumb(m, old) ==
  [ thumbHidden |-> IF m.face THEN FALSE ELSE old.thumbHidden,
    src   |-> IF m.face THEN m.name ELSE old.src,
    time  |-> IF m.face /\ m.at THEN "at" ELSE old.time ]

\* The side panel after a non-empty results list (lines 123-134).
PanelFor(rs, old) ==
  LET first == First(rs)
      thumb == Thumb(first, old) IN
  [ name  |-> IF first.pid # "" THEN <<first.name, first.pid>> ELSE <<first.name>>,
    score |-> IF first.score THEN "score" ELSE "",
    thumbHidden |-> thumb.thumbHidden, src |-> thumb.src, time |-> thumb.time ]

\* The UTF-16 code units of the strings the model uses, as charCodeAt
\* gives them.
CodeUnits(t) ==
  CASE t = "ann" -> <<97, 110, 110>>
    [] t = "bob" -> <<98, 111, 98>>
    [] t = "cat" -> <<99, 97, 116>>
    [] t = "dan" -> <<100, 97, 110>>
    [] t = "p1"  -> <<112, 49>>
    [] t = ""    -> <<>>

\* The code unit of "|".
Bar == 124

\* A 32-bit unsigned integer h is held as <<h div 2^16, h mod 2^16>>.
Half == 65536

\* A loop body that multiplies by 33.
HashStep_Times33(hash, c) ==
  LET low  == hash[2] * 33 + c
      high == hash[1] * 33 + low \div Half IN
  <<high % Half, low % Half>>

\* hash = (hash * 31 + key.charCodeAt(i)) >>> 0.  The sum is below 2^37,
\* so the double holds it exactly, and >>> 0 takes it modulo 2^32.
HashStep(hash, c) ==
  LET low  == hash[2] * 31 + c
      high == hash[1] * 31 + low \div Half IN
  <<high % Half, low % Half>>

\* The for loop of colorForId over the code units of key.
RECURSIVE HashOf(_)
HashOf(key) ==
  IF key = <<>> THEN <<0, 0>>
  ELSE HashStep(HashOf(SubSeq(key, 1, Len(key) - 1)), key[Len(key)])

\* hash % m, for m < 2^15.
Residue(hash, m) == ((hash[1] % m) * (Half % m) + hash[2]) % m

\* colorForId(key): `hsl(${hue}, 80%, 55%)`.
colorForId(key) == <<"hsl", Residue(HashOf(key), 360), 80, 55>>

\* The stroke of a face that is not recognized: 'hsl(0, 0%, 75%)'.
Gray == <<"hsl", 0, 0, 75>>

\* An identity key made of the name alone.
IdentityKey_NameOnly(r) == CodeUnits(r.name)

\* const identityKey = `${r.name}|${r.personnel_id || ''}`
IdentityKey(r) == CodeUnits(r.name) \o <<Bar>> \o CodeUnits(r.pid)

\* A forEach callback without the bbox guard of line 148.
Paint_NoGuard(r) ==
  << [ stroke |-> IF r.recognized THEN colorForId(IdentityKey(r)) ELSE Gray,
       label  |-> IF r.pid # "" THEN <<r.name, r.pid>> ELSE <<r.name>> ] >>

\* What one entry of data.results paints (lines 147-174): a stroked
\* rectangle and a label, or nothing when its bbox is not a 4-element array.
Paint(r) ==
  IF r.bbox # 4 THEN <<>>
  ELSE << [ stroke |-> IF r.recognized THEN colorForId(IdentityKey(r)) ELSE Gray,
            label  |-> IF r.pid # "" THEN <<r.name, r.pid>> ELSE <<r.name>> ] >>

RECURSIVE PaintAll(_)
PaintAll(rs) == IF rs = <<>> THEN <<>> ELSE Paint(Head(rs)) \o PaintAll(Tail(rs))

\* How the rendering of `data` ends on each page: "results" (the branch
\* that shows a match), "empty" (the else branch), or "throw" (a TypeError
\* after the clearRect: data is null, or, on the single page, a recognized
\* match has no score for data.score.toFixed).
Outcome(data) ==
  CASE data.null -> "throw"
    [] page = "multi" ->
         IF data.hasResults /\ Len(data.results) > 0 THEN "results" ELSE "empty"
    [] OTHER ->
         IF ~data.top.recognized THEN "empty"
         ELSE IF ~data.top.score THEN "throw" ELSE "results"

\* A renderer that draws on the canvas at whatever size it has.
DrawDimsAfter_NoResize(data) == drawDims

\* draw.width and draw.height after `data` was rendered: the canvas takes
\* the video's size on the multi page whenever there are results (lines
\* 114-117), on the single page when a recognized match has a 4-element
\* bbox (lines 366-371).
DrawDimsAfter(data) ==
  IF /\ Outcome(data) = "results"
     /\ page = "single" => data.top.bbox = 4
    THEN videoDims
    ELSE drawDims

\* The side panel after `data` took the branch that shows a match, or
\* threw.  A throw leaves the panel as it is, except that the single page
\* has already written the name (line 356).
PanelShown(data) ==
  CASE Outcome(data) = "results" /\ page = "multi" -> PanelFor(data.results, panel)
    [] Outcome(data) = "results" /\ page = "single" ->
         LET thumb == Thumb(data.top, panel) IN
         [ name |-> <<data.top.name>>, score |-> "score",
           thumbHidden |-> thumb.thumbHidden, src |-> thumb.src, time |-> thumb.time ]
    [] OTHER ->
         IF page = "single" /\ ~data.null
           THEN [panel EXCEPT !.name = <<data.top.name>>]
           ELSE panel

\* An else branch that resets the name and the score but forgets the
\* thumbnail.
PanelAfter_KeepsThumb(data) ==
  IF Outcome(data) = "empty"
    THEN [panel EXCEPT !.name = <<"-">>, !.score = ""]
    ELSE PanelShown(data)

\* The side panel after `data` was rendered: the else branch (lines
\* 175-180, 404-409) resets it.
PanelAfter(data) ==
  IF Outcome(data) = "empty" THEN EmptyPanel ELSE PanelShown(data)

\* A renderer that paints over what is there, without the clearRect.
SurfaceAfter_NoClear(data) ==
  CASE Outcome(data) = "results" /\ page = "multi" -> surface \o PaintAll(data.results)
    [] Outcome(data) = "results" /\ page = "single" ->
         IF data.top.bbox = 4
           THEN surface \o << [stroke |-> <<"#22c55e">>, label |-> <<data.top.name>>] >>
           ELSE surface
    [] OTHER -> surface

\* The draw canvas after `data` was rendered: clearRect empties it (lines
\* 111, 354), assigning draw.width resets it, and then the boxes of this
\* response are painted.
SurfaceAfter(data) ==
  CASE Outcome(data) = "results" /\ page = "multi" -> PaintAll(data.results)
    [] Outcome(data) = "results" /\ page = "single" ->
         IF data.top.bbox = 4
           THEN << [stroke |-> <<"#22c55e">>, label |-> <<data.top.name>>] >>
           ELSE <<>>
    [] OTHER -> <<>>

\* loopRecognize from `const dctx = draw.getContext('2d')` to the end of
\* the try block.
Render(data) ==
  /\ drawDims' = DrawDimsAfter(data)
  /\ panel' = PanelAfter(data)
  /\ surface' = SurfaceAfter(data)

\* ------------------------------------------------------------ loopRecognize

\* finally { recogTimer = setTimeout(loopRecognize, 1000); }
\* setTimeout returns a fresh handle; the handle recogTimer held is
\* overwritten, and its timer, if pending, stays pending.
ScheduleNext ==
  /\ recogTimer' = "pending"
  /\ timers' = timers + 1

\* loopRecognize up to its first await, once the guard has passed:
\* captureFrameBlob gives the capture canvas the video's size and asks for
\* the blob, which toBlob delivers as null when the canvas has no pixels.
StartCycle ==
  cycles' = [cycles EXCEPT
               ![IF videoDims[1] = 0 \/ videoDims[2] = 0 THEN "blobNull" ELSE "blob"] = @ + 1]

Leave(stage) == [cycles EXCEPT ![stage] = @ - 1]
Move(from, to) == [cycles EXCEPT ![from] = @ - 1, ![to] = @ + 1]

\* ------------------------------------------------------------------ actions

\* State the recognition page does not have.
Aside ==
  UNCHANGED <<call, nameInput, personnelIdInput, regs,
              selected, editHidden, editName, rows>>

Elsewhere == Aside /\ UNCHANGED jobs

\* What no step of the polling loop touches.
Rest == UNCHANGED <<page, videoDims, message, msgTimers, cam>> /\ Elsewhere

\* The click handler when recognizing was false (lines 88-92, 330-334):
\* flip the flag and call loopRecognize.
ToggleOn ==
  /\ ~recognizing
  /\ Busy < MaxThreads
  /\ recognizing' = TRUE
  /\ toggleText' = "Stop Recognizing"
  /\ StartCycle
  /\ Event("toggleOn")
  /\ UNCHANGED <<recogTimer, timers, surface, drawDims, panel>>
  /\ Rest

\* The click handler that cancels the timer but leaves the drawings.
ToggleOff_NoClear ==
  /\ recognizing
  /\ recognizing' = FALSE
  /\ toggleText' = "Start Recognizing"
  /\ IF recogTimer # "null"
       THEN /\ timers' = OtherTimers
            /\ recogTimer' = "null"
       ELSE UNCHANGED <<timers, recogTimer>>
  /\ Event("toggleOff")
  /\ UNCHANGED <<cycles, surface, drawDims, panel>>
  /\ Rest

\* The click handler when recognizing was true (lines 88-98, 330-340): flip
\* the flag and, only if recogTimer is truthy, cancel that timer (a no-op
\* for a handle that has fired), null it and clear the surface.
ToggleOff ==
  /\ recognizing
  /\ recognizing' = FALSE
  /\ toggleText' = "Start Recognizing"
  /\ IF recogTimer # "null"
       THEN /\ timers' = OtherTimers
            /\ recogTimer' = "null"
            /\ surface' = <<>>
       ELSE UNCHANGED <<timers, recogTimer, surface>>
  /\ Event("toggleOff")
  /\ UNCHANGED <<cycles, drawDims, panel>>
  /\ Rest

\* A loopRecognize without the guard of line 102: every timer starts a cycle.
TimerFire_NoGuard(held) ==
  /\ IF held THEN recogTimer = "pending" ELSE OtherTimers > 0
  /\ Threads <= MaxThreads
  /\ timers' = timers - 1
  /\ recogTimer' = IF held THEN "fired" ELSE recogTimer
  /\ StartCycle
  /\ Event("start")
  /\ UNCHANGED <<recognizing, toggleText, surface, drawDims, panel>>
  /\ Rest

\* A loopRecognize that, finding recognizing false, arms its timer again.
TimerFire_Rearms(held) ==
  /\ IF held THEN recogTimer = "pending" ELSE OtherTimers > 0
  /\ IF recognizing
       THEN /\ timers' = timers - 1
            /\ recogTimer' = IF held THEN "fired" ELSE recogTimer
            /\ StartCycle
            /\ Event("start")
       ELSE /\ UNCHANGED <<timers, recogTimer, cycles>>
            /\ Event("skip")
  /\ UNCHANGED <<recognizing, toggleText, surface, drawDims, panel>>
  /\ Rest

\* A pending timer calls loopRecognize: it returns at once when recognizing
\* is false and starts a cycle otherwise.  `held` tells whether it is the
\* timer whose handle recogTimer holds.
TimerFire(held) ==
  /\ IF held THEN recogTimer = "pending" ELSE OtherTimers > 0
  /\ timers' = timers - 1
  /\ recogTimer' = IF held THEN "fired" ELSE recogTimer
  /\ IF recognizing
       THEN StartCycle /\ Event("start")
       ELSE UNCHANGED cycles /\ Event("skip")
  /\ UNCHANGED <<recognizing, toggleText, surface, drawDims, panel>>
  /\ Rest

\* toBlob delivered a blob: the form is built and fetch is called.
BlobReady ==
  /\ cycles["blob"] > 0
  /\ cycles' = Move("blob", "fetch")
  /\ Event("fetch")
  /\ UNCHANGED <<recognizing, recogTimer, toggleText, timers, surface, drawDims, panel>>
  /\ Rest

\* toBlob delivered null: form.append('image', null, 'frame.jpg') throws a
\* TypeError, which the catch swallows; finally schedules the next cycle.
BlobNull ==
  /\ cycles["blobNull"] > 0
  /\ cycles' = Leave("blobNull")
  /\ ScheduleNext
  /\ Event("noBlob")
  /\ UNCHANGED <<recognizing, toggleText, surface, drawDims, panel>>
  /\ Rest

\* fetch resolved (whatever the HTTP status): res.json() is awaited.
FetchResolve ==
  /\ cycles["fetch"] > 0
  /\ cycles' = Move("fetch", "json")
  /\ Event("response")
  /\ UNCHANGED <<recognizing, recogTimer, toggleText, timers, surface, drawDims, panel>>
  /\ Rest

\* A catch block with no finally after it: the loop is not rescheduled.
FetchReject_NoFinally ==
  /\ cycles["fetch"] > 0
  /\ cycles' = Leave("fetch")
  /\ Event("reject")
  /\ UNCHANGED <<recognizing, recogTimer, toggleText, timers, surface, drawDims, panel>>
  /\ Rest

\* fetch rejected (network error): catch, then finally.
FetchReject ==
  /\ cycles["fetch"] > 0
  /\ cycles' = Leave("fetch")
  /\ ScheduleNext
  /\ Event("reject")
  /\ UNCHANGED <<recognizing, toggleText, surface, drawDims, panel>>
  /\ Rest

\* A catch block that reports the error: showMessage(e.message, true).
JsonReject_Reported ==
  /\ cycles["json"] > 0
  /\ cycles' = Leave("json")
  /\ ScheduleNext
  /\ ShowMessage("Unexpected token", TRUE)
  /\ Event("badJson")
  /\ UNCHANGED <<recognizing, toggleText, surface, drawDims, panel, page, videoDims, cam>>
  /\ Elsewhere

\* res.json() rejected (the body is not JSON): catch, then finally.
JsonReject ==
  /\ cycles["json"] > 0
  /\ cycles' = Leave("json")
  /\ ScheduleNext
  /\ Event("badJson")
  /\ UNCHANGED <<recognizing, toggleText, surface, drawDims, panel>>
  /\ Rest

\* res.json() resolved with `data`: clear and render (a TypeError on the
\* way is swallowed by the catch), then finally.
JsonResolve(data) ==
  /\ cycles["json"] > 0
  /\ cycles' = Leave("json")
  /\ Render(data)
  /\ ScheduleNext
  /\ Event(Outcome(data))
  /\ UNCHANGED <<recognizing, toggleText>>
  /\ Rest

\* ---------------------------------------------------------------- the camera

\* What startCamera and the dismiss timer leave alone.
Loop ==
  UNCHANGED <<page, recognizing, recogTimer, toggleText, timers, cycles, panel>> /\ Elsewhere

\* getUserMedia resolved: video.srcObject = stream, video.play() is awaited.
CameraGranted ==
  /\ cam = "acquiring"
  /\ cam' = "playing"
  /\ Event("camera")
  /\ UNCHANGED <<surface, drawDims, videoDims, message, msgTimers>>
  /\ Loop

\* startCamera has returned.  The single page goes on with
\* startCamera().then(refreshFacesList) (line 433).
CameraDone ==
  /\ jobs' = IF page = "single" THEN StartRefresh(jobs) ELSE jobs
  /\ UNCHANGED <<page, recognizing, recogTimer, toggleText, timers, cycles, panel>>
  /\ Aside

\* getUserMedia or video.play() rejected: showMessage('Camera error: ...', true).
CameraFailed ==
  /\ cam \in {"acquiring", "playing"}
  /\ cam' = "failed"
  /\ ShowMessage("Camera error", TRUE)
  /\ Event("camera")
  /\ UNCHANGED <<surface, drawDims, videoDims>>
  /\ CameraDone

\* video.play() resolved.  On the recognition page the draw canvas takes
\* the video's size (which resets its bitmap) and is put over the video;
\* register.js has no draw canvas.
CameraPlaying ==
  /\ cam = "playing"
  /\ videoDims # NoSize
  /\ cam' = "ready"
  /\ IF page = "register"
       THEN UNCHANGED <<drawDims, surface>>
       ELSE drawDims' = videoDims /\ surface' = <<>>
  /\ Event("camera")
  /\ UNCHANGED <<videoDims, message, msgTimers>>
  /\ CameraDone

\* The stream's native resolution becomes known, or changes (device switch).
VideoResize(d) ==
  /\ cam \in {"playing", "ready"}
  /\ d # videoDims
  /\ videoDims' = d
  /\ Event("resize")
  /\ UNCHANGED <<surface, drawDims, message, msgTimers, cam>>
  /\ Loop

\* The 5000 ms timer of showMessage empties the message.  showMessage never
\* cancels a timer, and the timers of a page have one delay, so they fire
\* in the order they were set: the one that fires is the oldest pending.
DismissMessage ==
  /\ msgTimers > 0
  /\ msgTimers' = msgTimers - 1
  /\ message' = [text |-> "", class |-> "message"]
  /\ Event("dismiss")
  /\ UNCHANGED <<surface, drawDims, videoDims, cam>>
  /\ Loop

\* ------------------------------------------------- the renderer's arithmetic

\* JavaScript numbers are IEEE-754 doubles: a quotient or product is the
\* exact result rounded to 53 significant binary digits, ties to even.
Precision == 53

Max(a, b) == IF a >= b THEN a ELSE b
Min(a, b) == IF a <= b THEN a ELSE b

\* A magnitude is written as its binary digits, most significant first; a
\* double is [neg, m, e]: the digits m (at most Precision of them, none
\* for zero) scaled by 2^e, negated when neg.  Integers stay below 2^30.

\* How many binary digits n has, and n written in w of them.
Width(n) == CHOOSE w \in 0..30 : n < 2^w /\ (w = 0 \/ 2^(w - 1) <= n)
Digits(n, w) == [i \in 1..w |-> (n \div 2^(w - i)) % 2]
Bits(n) == Digits(n, Width(n))

RECURSIVE Value(_)
Value(ds) ==
  IF Len(ds) = 0 THEN 0
  ELSE IF Len(ds) = 1 THEN ds[1]
  ELSE LET h == Len(ds) \div 2 IN
       Value(SubSeq(ds, 1, h)) * 2^(Len(ds) - h) + Value(SubSeq(ds, h + 1, Len(ds)))

\* ds without its leading zeros.
Strip(ds) ==
  IF \A i \in 1..Len(ds) : ds[i] = 0 THEN <<>>
  ELSE SubSeq(ds, CHOOSE i \in 1..Len(ds) : ds[i] = 1 /\ \A j \in 1..(i - 1) : ds[j] = 0,
              Len(ds))

\* The digits of ds + 1.
Succ(ds) ==
  IF \A i \in 1..Len(ds) : ds[i] = 1 THEN <<1>> \o [i \in 1..Len(ds) |-> 0]
  ELSE LET p == CHOOSE i \in 1..Len(ds) : ds[i] = 0 /\ \A j \in (i + 1)..Len(ds) : ds[j] = 1
       IN  [i \in 1..Len(ds) |-> IF i < p THEN ds[i] ELSE IF i = p THEN 1 ELSE 0]

\* The double nearest to (ds + t) * 2^e, where 0 <= t < 1 and `more` tells
\* whether t > 0.
RoundDouble(neg, ds, e, more) ==
  LET d == Strip(ds)
      n == Len(d) IN
  IF n <= Precision THEN [neg |-> neg, m |-> d, e |-> e]
  ELSE
    LET keep == SubSeq(d, 1, Precision)
        half == d[Precision + 1] = 1
        rest == more \/ \E i \in (Precision + 2)..n : d[i] = 1
        up   == half /\ (rest \/ keep[Precision] = 1)
        m    == IF up THEN Succ(keep) ELSE keep
    IN  IF Len(m) > Precision
          THEN [neg |-> neg, m |-> SubSeq(m, 1, Precision), e |-> e + (n - Precision) + 1]
          ELSE [neg |-> neg, m |-> m, e |-> e + (n - Precision)]

\* 2^j modulo d, in steps that stay small.
RECURSIVE Pow2Mod(_, _)
Pow2Mod(j, d) == IF j <= 15 THEN 2^j % d ELSE ((2^15 % d) * Pow2Mod(j - 15, d)) % d

\* The first k digits of r/d after the binary point (0 <= r < d < 2^15),
\* and what long division has left of r after them.
Fraction(r, d, k) == [i \in 1..k |-> (2 * ((r * Pow2Mod(i - 1, d)) % d)) \div d]
Remainder(r, d, k) == (r * Pow2Mod(k, d)) % d

\* a / b for integers a >= 0 and b > 0.  a/b is 0 or at least 1/b, so its
\* leading digit is among the first Width(b) after the point, and k digits
\* hold the Precision to keep and the one to round on.
Divide(a, b) ==
  LET k == Width(b) + Precision + 1 IN
  RoundDouble(FALSE, Bits(a \div b) \o Fraction(a % b, b, k), -k,
              Remainder(a % b, b, k) # 0)

\* Long multiplication works on limbs of LimbBits digits.
LimbBits == 14

\* ds cut into limbs, the least significant first.
Limbs(ds) ==
  [j \in 1..((Len(ds) + LimbBits - 1) \div LimbBits) |->
     Value(SubSeq(ds, Max(1, Len(ds) - j * LimbBits + 1), Len(ds) - (j - 1) * LimbBits))]

\* The limbs of ls * n + carry, and after them what is carried out.
RECURSIVE TimesLimbs(_, _, _)
TimesLimbs(ls, n, carry) ==
  IF ls = <<>> THEN <<carry>>
  ELSE LET t == Head(ls) * n + carry IN
       <<t % 2^LimbBits>> \o TimesLimbs(Tail(ls), n, t \div 2^LimbBits)

\* The digits of ds * n, for 0 <= n < 2^16.
TimesDigits(ds, n) ==
  LET ls   == TimesLimbs(Limbs(ds), n, 0)
      top  == Bits(ls[Len(ls)])
      low  == (Len(ls) - 1) * LimbBits IN
  top \o [i \in 1..low |->
            Digits(ls[Len(ls) - 1 - ((i - 1) \div LimbBits)], LimbBits)[((i - 1) % LimbBits) + 1]]

\* n * x for an integer n and a double x >= 0.
Times(n, x) ==
  RoundDouble(n < 0, TimesDigits(x.m, IF n < 0 THEN -n ELSE n), x.e, FALSE)

\* Math.floor(x), for |x| < 2^30.
Floor(x) ==
  LET whole == Value(SubSeq(x.m, 1, Len(x.m) + x.e))
      part  == \E i \in (Len(x.m) + x.e + 1)..Len(x.m) : i >= 1 /\ x.m[i] = 1 IN
  IF x.e >= 0 THEN (IF x.neg THEN -1 ELSE 1) * Value(x.m) * 2^(x.e)
  ELSE IF x.neg THEN -(whole + IF part THEN 1 ELSE 0)
  ELSE whole

\* A renderer that takes the difference of the mapped corners as it comes.
BoxRect_Signed(size, source, bbox) ==
  LET scaleX == Divide(size[1], source[1])
      scaleY == Divide(size[2], source[2])
      x1 == Max(0, Floor(Times(bbox[1], scaleX)))
      y1 == Max(0, Floor(Times(bbox[2], scaleY)))
      x2 == Max(0, Floor(Times(bbox[3], scaleX)))
      y2 == Max(0, Floor(Times(bbox[4], scaleY)))
  IN  <<x1, y1, x2 - x1, y2 - y1>>

\* The rectangle strokeRect is given for bbox (lines 118-120 and 147-154,
\* 372-381): <<x, y, width, height>> on a surface of `size` for a box in an
\* image of `source`.
BoxRect(size, source, bbox) ==
  LET scaleX == Divide(size[1], source[1])
      scaleY == Divide(size[2], source[2])
      x1 == Max(0, Floor(Times(bbox[1], scaleX)))
      y1 == Max(0, Floor(Times(bbox[2], scaleY)))
      x2 == Max(0, Floor(Times(bbox[3], scaleX)))
      y2 == Max(0, Floor(Times(bbox[4], scaleY)))
  IN  <<x1, y1, Max(0, x2 - x1), Max(0, y2 - y1)>>

\* A label that starts at the box's corner, wherever that is.
LabelBox_AtCorner(width, metrics, x1) ==
  LET textW == metrics + 10 IN
  <<Max(0, x1), textW>>

\* Where the label's background goes horizontally (lines 165-171,
\* 394-400): fillRect(tx, ty, textW, textH) on a surface `width` wide, for
\* a label measured `metrics` wide at a box whose corner is at x1.
\* <<tx, textW>>.
LabelBox(width, metrics, x1) ==
  LET textW == metrics + 10
      tx    == Max(0, Min(width - textW - 2, x1)) IN
  <<tx, textW>>

\* ----------------------------------------------------- calls of the renderer

\* Sizes of the draw canvas, and sizes the server may report in image_size
\* (the frame as sent, or the frame as the detector resized it).
SurfaceSizes == CamSizes \cup {<<1280, 960>>}
SourceSizes == {<<640, 480>>, <<416, 416>>}
\* Boxes the server may report, some with corners off the image or inverted.
Boxes == { <<x1, y1, x2, y2>> : x1 \in {-20, 13, 100, 300}, y1 \in {0, 13, 50, 250},
                                x2 \in {13, 100, 300},      y2 \in {13, 50, 250} }

NoCall == [fn |-> "none", args |-> <<>>, done |-> TRUE, out |-> <<>>]

BoxCalls ==
  { [fn |-> "boxRect", args |-> [size |-> s, source |-> o, bbox |-> b],
     done |-> FALSE, out |-> <<>>] : s \in SurfaceSizes, o \in SourceSizes, b \in Boxes }

\* Code units an identity key is made of: a letter, the bar, the largest.
KeyUnits == {97, Bar, 65535}
Keys == UNION { [1..n -> KeyUnits] : n \in 0..MaxKeyLen }

ColorCalls ==
  { [fn |-> "colorForId", args |-> [key |-> k], done |-> FALSE, out |-> <<>>] : k \in Keys }

\* Widths measureText may report for a label, and corners x1 a box may
\* have (BoxRect keeps them at 0 or more).
LabelWidths == {0, 60, 300, 628, 630, 631, 700, 1300}
Corners == {0, 13, 300, 568, 600, 639, 1279, 2000}

LabelCalls ==
  { [fn |-> "labelBox", args |-> [width |-> s[1], metrics |-> t, x1 |-> x],
     done |-> FALSE, out |-> <<>>] : s \in SurfaceSizes, t \in LabelWidths, x \in Corners }

\* Responses either page may be given to render.
PaintCalls ==
  { [fn |-> "paint", args |-> [data |-> d], done |-> FALSE, out |-> <<>>] :
      d \in Responses }

Return(out) == call' = [call EXCEPT !.done = TRUE, !.out = out]

\* Nothing on the page moves while the renderer computes.
Still ==
  UNCHANGED <<page, recognizing, recogTimer, toggleText, timers, cycles, surface,
              drawDims, videoDims, panel, message, msgTimers, cam, last,
              nameInput, personnelIdInput, regs,
              selected, editHidden, editName, rows, jobs>>

\* One entry's box is mapped to the surface.
MapBox ==
  /\ call.fn = "boxRect"
  /\ ~call.done
  /\ Return(BoxRect(call.args.size, call.args.source, call.args.bbox))
  /\ Still

\* One entry's label is placed.
PlaceLabel ==
  /\ call.fn = "labelBox"
  /\ ~call.done
  /\ Return(LabelBox(call.args.width, call.args.metrics, call.args.x1))
  /\ Still

\* The stroke color of one recognized entry is derived from its key.
ColorFor ==
  /\ call.fn = "colorForId"
  /\ ~call.done
  /\ Return(colorForId(call.args.key))
  /\ Still

\* The boxes of one response are painted on the page's draw canvas.
PaintResponse ==
  /\ call.fn = "paint"
  /\ ~call.done
  /\ Return(SurfaceAfter(call.args.data))
  /\ Still

\* -------------------------------------------------------- the register button

\* What the user may have typed into nameInput and personnelIdInput.
NameValues == {"", "  ", "Ann", " Ann "}
PidValues == {"", "p1"}

\* String.prototype.trim
Trim(v) == CASE v = "  " -> "" [] v = " Ann " -> "Ann" [] OTHER -> v

RegStages == {"blobNull", "blob", "fetch", "errJson", "okJson"}

\* Bodies of an answer of /api/register: text that is not JSON, the JSON
\* value null, or an object, with or without a non-empty `detail` and a
\* `registered_image_url`.
NotJson == [json |-> FALSE, null |-> FALSE, detail |-> "", url |-> FALSE]
JsonNull == [json |-> TRUE, null |-> TRUE, detail |-> "", url |-> FALSE]
JsonObject(detail, url) == [json |-> TRUE, null |-> FALSE, detail |-> detail, url |-> url]
ErrorBodies ==
  {NotJson, JsonNull} \cup
  { JsonObject(d, FALSE) : d \in {"", "No face detected", "Name already registered"} }
OkBodies == {NotJson, JsonNull, JsonObject("", FALSE), JsonObject("", TRUE)}

\* What the register handler never touches.
RegAside ==
  UNCHANGED <<page, recognizing, recogTimer, toggleText, timers, cycles, surface,
              drawDims, videoDims, cam, call,
              selected, editHidden, editName, rows>>

RegRest == RegAside /\ UNCHANGED jobs

\* The user edits an input field.
TypeName(v) ==
  /\ page \in RegPages
  /\ v # nameInput
  /\ nameInput' = v
  /\ Event("type")
  /\ UNCHANGED <<personnelIdInput, regs, panel, message, msgTimers>>
  /\ RegRest

TypePersonnelId(v) ==
  /\ page = "register"
  /\ v # personnelIdInput
  /\ personnelIdInput' = v
  /\ Event("type")
  /\ UNCHANGED <<nameInput, regs, panel, message, msgTimers>>
  /\ RegRest

\* The click handler up to its first await (register.js lines 50-58,
\* part_000 lines 300-307): a blank name is reported and nothing is sent;
\* otherwise the frame is captured.
RegisterClick ==
  /\ page \in RegPages
  /\ Busy < MaxThreads
  /\ IF Trim(nameInput) = ""
       THEN /\ ShowMessage(IF page = "register" THEN "Please enter full name"
                           ELSE "Please enter a name to register", TRUE)
            /\ Event("regBlank")
            /\ UNCHANGED regs
       ELSE /\ regs' = [regs EXCEPT
                          ![IF videoDims[1] = 0 \/ videoDims[2] = 0
                              THEN "blobNull" ELSE "blob"] = @ + 1]
            /\ Event("regClick")
            /\ UNCHANGED <<message, msgTimers>>
  /\ UNCHANGED <<nameInput, personnelIdInput, panel>>
  /\ RegRest

\* toBlob delivered a blob: the form is built and the request is sent.
RegBlobReady ==
  /\ regs["blob"] > 0
  /\ regs' = [regs EXCEPT !["blob"] = @ - 1, !["fetch"] = @ + 1]
  /\ Event("regSent")
  /\ UNCHANGED <<nameInput, personnelIdInput, panel, message, msgTimers>>
  /\ RegRest

\* toBlob delivered null: form.append('image', null, 'frame.jpg') throws,
\* and the catch shows the TypeError.
RegBlobNull ==
  /\ regs["blobNull"] > 0
  /\ regs' = [regs EXCEPT !["blobNull"] = @ - 1]
  /\ ShowMessage("parameter 2 is not of type 'Blob'", TRUE)
  /\ Event("regNoBlob")
  /\ UNCHANGED <<nameInput, personnelIdInput, panel>>
  /\ RegRest

\* fetch rejected: the catch shows the network error.
RegFetchReject ==
  /\ regs["fetch"] > 0
  /\ regs' = [regs EXCEPT !["fetch"] = @ - 1]
  /\ ShowMessage("Failed to fetch", TRUE)
  /\ Event("regReject")
  /\ UNCHANGED <<nameInput, personnelIdInput, panel>>
  /\ RegRest

\* fetch resolved with a status that is not 2xx: res.json() is awaited.
RegRefused ==
  /\ regs["fetch"] > 0
  /\ regs' = [regs EXCEPT !["fetch"] = @ - 1, !["errJson"] = @ + 1]
  /\ Event("regStatus")
  /\ UNCHANGED <<nameInput, personnelIdInput, panel, message, msgTimers>>
  /\ RegRest

\* e.message after `const err = await res.json().catch(() => ({}));
\* throw new Error(err.detail || fallback)`: reading .detail of null is
\* itself a TypeError.
DetailOr(body, fallback) ==
  IF ~body.json THEN fallback
  ELSE IF body.null THEN "Cannot read properties of null (reading 'detail')"
  ELSE IF body.detail # "" THEN body.detail
  ELSE fallback

ErrorMessage(body) == DetailOr(body, "Registration failed")

\* The body of the refusal has been read, or has failed to parse: the
\* handler throws, and its catch shows the message.
RegFailed(body) ==
  /\ regs["errJson"] > 0
  /\ regs' = [regs EXCEPT !["errJson"] = @ - 1]
  /\ ShowMessage(ErrorMessage(body), TRUE)
  /\ Event("regFailed")
  /\ UNCHANGED <<nameInput, personnelIdInput, panel>>
  /\ RegRest

\* fetch resolved with a 2xx status.  register.js empties both inputs and
\* reports success (lines 68-70); part_000 first awaits res.json() (line 316).
RegAccepted ==
  /\ regs["fetch"] > 0
  /\ IF page = "register"
       THEN /\ regs' = [regs EXCEPT !["fetch"] = @ - 1]
            /\ nameInput' = ""
            /\ personnelIdInput' = ""
            /\ ShowMessage("Registered successfully", FALSE)
            /\ Event("registered")
       ELSE /\ regs' = [regs EXCEPT !["fetch"] = @ - 1, !["okJson"] = @ + 1]
            /\ Event("regStatus")
            /\ UNCHANGED <<nameInput, personnelIdInput, message, msgTimers>>
  /\ UNCHANGED panel
  /\ RegRest

\* part_000 lines 316-324: the body of the 2xx answer has been read.  A
\* body that is not JSON throws into the catch; otherwise the name is
\* emptied, success is reported, the registered image is shown in the
\* thumbnail when the body names one, and refreshFacesList is called and
\* awaited (it catches its own errors; nothing follows it in the handler).
RegDone(body) ==
  /\ regs["okJson"] > 0
  /\ regs' = [regs EXCEPT !["okJson"] = @ - 1]
  /\ IF ~body.json
       THEN /\ ShowMessage("Unexpected token", TRUE)
            /\ Event("regBadJson")
            /\ UNCHANGED <<nameInput, panel, jobs>>
       ELSE /\ nameInput' = ""
            /\ ShowMessage("Registered successfully", FALSE)
            /\ panel' = IF body.url
                          THEN [panel EXCEPT !.thumbHidden = FALSE, !.src = "registered"]
                          ELSE panel
            /\ jobs' = StartRefresh(jobs)
            /\ Event("registered")
  /\ UNCHANGED personnelIdInput
  /\ RegAside

\* ------------------------------------------------------- the identities page

\* identities.js: the list, Clear all, the edit panel, Save, Cancel and
\* Delete.  What a request carries (editPid.value among it) is left out.
\* The single page of part_000 has the list and Clear all as well: its
\* refreshFacesList (lines 285-298) ignores a failure where that of
\* identities.js (lines 19-50) shows 'Failed to load faces'.

\* Identities the server may list: rec.name and rec.personnel_id ("" for none).
Identities == { [name |-> "ann", pid |-> "p1"], [name |-> "bob", pid |-> ""] }

\* Bodies of an answer of /api/faces: not JSON, null, or an object whose
\* `faces` lists some identities.
ListBodies ==
  { [json |-> FALSE, null |-> FALSE, faces |-> {}], [json |-> TRUE, null |-> TRUE, faces |-> {}] }
    \cup { [json |-> TRUE, null |-> FALSE, faces |-> f] : f \in SUBSET Identities }

\* What the user may type into editName.
EditValues == {"", "eve"}

NoSelection == <<>>

\* What the list and the edit panel never touch.
IdRest ==
  UNCHANGED <<page, recognizing, recogTimer, toggleText, timers, cycles, surface,
              drawDims, videoDims, panel, cam, call, nameInput, personnelIdInput, regs>>

\* The Refresh button.
RefreshClick ==
  /\ page \in ListPages
  /\ Busy < MaxThreads
  /\ jobs' = StartRefresh(jobs)
  /\ Event("refresh")
  /\ UNCHANGED <<selected, editHidden, editName, rows, message, msgTimers>>
  /\ IdRest

\* fetch('/api/faces') resolved: res.json() is awaited (no check of res.ok).
ListFetched ==
  /\ jobs["list"] > 0
  /\ jobs' = [jobs EXCEPT !["list"] = @ - 1, !["listJson"] = @ + 1]
  /\ Event("list")
  /\ UNCHANGED <<selected, editHidden, editName, rows, message, msgTimers>>
  /\ IdRest

\* The catch of refreshFacesList.
ListFailed ==
  IF page = "identities"
    THEN ShowMessage("Failed to load faces", TRUE)
    ELSE UNCHANGED <<message, msgTimers>>

\* fetch('/api/faces') rejected: catch.
ListRejected ==
  /\ jobs["list"] > 0
  /\ jobs' = [jobs EXCEPT !["list"] = @ - 1]
  /\ ListFailed
  /\ Event("list")
  /\ UNCHANGED <<selected, editHidden, editName, rows>>
  /\ IdRest

\* The list after res.json() settled with `body`: a body that is not JSON
\* leaves it as it was; otherwise it is emptied and filled from
\* data.faces, where a null body throws after the emptying.
RowsAfter(body) ==
  IF ~body.json THEN rows ELSE IF body.null THEN {} ELSE body.faces

\* res.json() settled (lines 22-49, 288-297).
ListParsed(body) ==
  /\ jobs["listJson"] > 0
  /\ jobs' = [jobs EXCEPT !["listJson"] = @ - 1]
  /\ rows' = RowsAfter(body)
  /\ IF ~body.json \/ body.null
       THEN ListFailed
       ELSE UNCHANGED <<message, msgTimers>>
  /\ Event("list")
  /\ UNCHANGED <<selected, editHidden, editName>>
  /\ IdRest

\* The Clear all button up to await fetch('/api/clear') (lines 54-56,
\* 421-423).
ClearClick ==
  /\ page \in ListPages
  /\ Busy < MaxThreads
  /\ jobs' = [jobs EXCEPT !["clear"] = @ + 1]
  /\ Event("clear")
  /\ UNCHANGED <<selected, editHidden, editName, rows, message, msgTimers>>
  /\ IdRest

\* fetch('/api/clear') rejected: catch.
ClearRejected ==
  /\ jobs["clear"] > 0
  /\ jobs' = [jobs EXCEPT !["clear"] = @ - 1]
  /\ ShowMessage("Failed to clear", TRUE)
  /\ Event("clearFailed")
  /\ UNCHANGED <<selected, editHidden, editName, rows>>
  /\ IdRest

\* fetch('/api/clear') resolved (no check of res.ok): refreshFacesList is
\* called and awaited.
ClearAnswered ==
  /\ jobs["clear"] > 0
  /\ jobs' = [jobs EXCEPT !["clear"] = @ - 1, !["clearList"] = @ + 1]
  /\ Event("clear")
  /\ UNCHANGED <<selected, editHidden, editName, rows, message, msgTimers>>
  /\ IdRest

\* The refreshFacesList of Clear all: fetch('/api/faces') resolved.
ClearListFetched ==
  /\ jobs["clearList"] > 0
  /\ jobs' = [jobs EXCEPT !["clearList"] = @ - 1, !["clearListJson"] = @ + 1]
  /\ Event("clear")
  /\ UNCHANGED <<selected, editHidden, editName, rows, message, msgTimers>>
  /\ IdRest

\* refreshFacesList returned to the Clear all handler, having failed or
\* not: on the identities page a failure has shown its message and set
\* its timer; then showMessage('Cleared all registered faces').
Cleared(failed) ==
  /\ message' = [text |-> "Cleared all registered faces", class |-> "message "]
  /\ msgTimers' = msgTimers + (IF failed /\ page = "identities" THEN 2 ELSE 1)
  /\ Event("cleared")

\* The refreshFacesList of Clear all: fetch('/api/faces') rejected.
ClearListRejected ==
  /\ jobs["clearList"] > 0
  /\ jobs' = [jobs EXCEPT !["clearList"] = @ - 1]
  /\ Cleared(TRUE)
  /\ UNCHANGED <<selected, editHidden, editName, rows>>
  /\ IdRest

\* The refreshFacesList of Clear all: res.json() settled.
ClearListParsed(body) ==
  /\ jobs["clearListJson"] > 0
  /\ jobs' = [jobs EXCEPT !["clearListJson"] = @ - 1]
  /\ rows' = RowsAfter(body)
  /\ Cleared(~body.json \/ body.null)
  /\ UNCHANGED <<selected, editHidden, editName>>
  /\ IdRest

\* beginEdit(rec), from the Edit button of a listed identity.
BeginEdit(rec) ==
  /\ page = "identities"
  /\ rec \in rows
  /\ selected' = <<rec>>
  /\ editName' = rec.name
  /\ editHidden' = FALSE
  /\ Event("edit")
  /\ UNCHANGED <<rows, jobs, message, msgTimers>>
  /\ IdRest

\* The Cancel button.
CancelEdit ==
  /\ page = "identities"
  /\ selected' = NoSelection
  /\ editHidden' = TRUE
  /\ Event("cancel")
  /\ UNCHANGED <<editName, rows, jobs, message, msgTimers>>
  /\ IdRest

\* The user edits the name field.
TypeEditName(v) ==
  /\ page = "identities"
  /\ v # editName
  /\ editName' = v
  /\ Event("type")
  /\ UNCHANGED <<selected, editHidden, rows, jobs, message, msgTimers>>
  /\ IdRest

\* The Save button, up to await fetch('/api/identity/rename') (lines 78-89).
SaveClick ==
  /\ page = "identities"
  /\ Busy < MaxThreads
  /\ CASE selected = NoSelection ->
            /\ Event("saveNothing")
            /\ UNCHANGED <<jobs, message, msgTimers>>
       [] selected # NoSelection /\ Trim(editName) = "" ->
            /\ ShowMessage("New name required", TRUE)
            /\ Event("saveBlank")
            /\ UNCHANGED jobs
       [] OTHER ->
            /\ jobs' = [jobs EXCEPT !["rename"] = @ + 1]
            /\ Event("saveSent")
            /\ UNCHANGED <<message, msgTimers>>
  /\ UNCHANGED <<selected, editHidden, editName, rows>>
  /\ IdRest

\* The rename request rejected: catch.
RenameRejected ==
  /\ jobs["rename"] > 0
  /\ jobs' = [jobs EXCEPT !["rename"] = @ - 1]
  /\ ShowMessage("Failed to fetch", TRUE)
  /\ Event("renameFailed")
  /\ UNCHANGED <<selected, editHidden, editName, rows>>
  /\ IdRest

\* The rename request was answered with a status that is not 2xx.
RenameRefused ==
  /\ jobs["rename"] > 0
  /\ jobs' = [jobs EXCEPT !["rename"] = @ - 1, !["renameErr"] = @ + 1]
  /\ Event("status")
  /\ UNCHANGED <<selected, editHidden, editName, rows, message, msgTimers>>
  /\ IdRest

\* The body of the refusal was read: throw, catch.
RenameFailed(body) ==
  /\ jobs["renameErr"] > 0
  /\ jobs' = [jobs EXCEPT !["renameErr"] = @ - 1]
  /\ ShowMessage(DetailOr(body, "Rename failed"), TRUE)
  /\ Event("renameFailed")
  /\ UNCHANGED <<selected, editHidden, editName, rows>>
  /\ IdRest

\* The rename request was answered with a 2xx status (lines 94-97).
RenameOk ==
  /\ jobs["rename"] > 0
  /\ jobs' = StartRefresh([jobs EXCEPT !["rename"] = @ - 1])
  /\ ShowMessage("Updated", FALSE)
  /\ selected' = NoSelection
  /\ editHidden' = TRUE
  /\ Event("renamed")
  /\ UNCHANGED <<editName, rows>>
  /\ IdRest

\* deleteIdentity(rec), from the Delete button of a listed identity, up to
\* await fetch('/api/identity/delete').
DeleteClick(rec) ==
  /\ page = "identities"
  /\ rec \in rows
  /\ Busy < MaxThreads
  /\ jobs' = [jobs EXCEPT !["delete"] = @ + 1]
  /\ Event("deleteSent")
  /\ UNCHANGED <<selected, editHidden, editName, rows, message, msgTimers>>
  /\ IdRest

\* The delete request rejected: catch.
DeleteRejected ==
  /\ jobs["delete"] > 0
  /\ jobs' = [jobs EXCEPT !["delete"] = @ - 1]
  /\ ShowMessage("Failed to fetch", TRUE)
  /\ Event("deleteFailed")
  /\ UNCHANGED <<selected, editHidden, editName, rows>>
  /\ IdRest

\* The delete request was answered with a status that is not 2xx.
DeleteRefused ==
  /\ jobs["delete"] > 0
  /\ jobs' = [jobs EXCEPT !["delete"] = @ - 1, !["deleteErr"] = @ + 1]
  /\ Event("status")
  /\ UNCHANGED <<selected, editHidden, editName, rows, message, msgTimers>>
  /\ IdRest

\* The body of the refusal was read: throw, catch.
DeleteFailed(body) ==
  /\ jobs["deleteErr"] > 0
  /\ jobs' = [jobs EXCEPT !["deleteErr"] = @ - 1]
  /\ ShowMessage(DetailOr(body, "Delete failed"), TRUE)
  /\ Event("deleteFailed")
  /\ UNCHANGED <<selected, editHidden, editName, rows>>
  /\ IdRest

\* The delete request was answered with a 2xx status (lines 113-114).
DeleteOk ==
  /\ jobs["delete"] > 0
  /\ jobs' = StartRefresh([jobs EXCEPT !["delete"] = @ - 1])
  /\ ShowMessage("Deleted", FALSE)
  /\ Event("deleted")
  /\ UNCHANGED <<selected, editHidden, editName, rows>>
  /\ IdRest

NoJobs == [s \in JobStages |-> 0]

\* The page has no edit panel (nothing of it ever shows), and the list is
\* empty.
NoEditPanel ==
  /\ selected = NoSelection
  /\ editHidden = TRUE
  /\ editName = ""
  /\ rows = {}

\* No identities page is loaded.
NoIdentitiesPage ==
  /\ NoEditPanel
  /\ jobs = NoJobs

\* startCamera once the script has run: either waiting for getUserMedia,
\* or failed before its first await (insecure context, no camera API), in
\* which case the single page has already called refreshFacesList.
CameraInit ==
  \/ /\ cam = "acquiring"
     /\ message = [text |-> "", class |-> "message"]
     /\ msgTimers = 0
     /\ jobs = NoJobs
  \/ /\ cam = "failed"
     /\ message = [text |-> "Camera error", class |-> "message error"]
     /\ msgTimers = 1
     /\ jobs = IF page = "single" THEN StartRefresh(NoJobs) ELSE NoJobs

\* ------------------------------------------------------------ specification

\* A recognition page once its script has run.
PageInit ==
  /\ recognizing = FALSE
  /\ recogTimer = "null"
  /\ toggleText = "Start Recognizing"
  /\ timers = 0
  /\ cycles = [s \in Stages |-> 0]
  /\ surface = <<>>
  /\ drawDims = <<DefaultCanvasW, DefaultCanvasH>>
  /\ videoDims = NoSize
  /\ panel = EmptyPanel
  /\ CameraInit
  /\ last = [ev |-> "load", had |-> FALSE, fit |-> FALSE]
  /\ call = NoCall
  /\ nameInput = ""
  /\ personnelIdInput = ""
  /\ regs = [s \in RegStages |-> 0]
  /\ NoEditPanel

\* The multi page (lines 1-191).
Init == page = "multi" /\ PageInit

Next ==
  \/ ToggleOn
  \/ ToggleOff
  \/ \E held \in BOOLEAN : TimerFire(held)
  \/ BlobReady
  \/ BlobNull
  \/ FetchResolve
  \/ FetchReject
  \/ JsonReject
  \/ \E data \in Responses : JsonResolve(data)
  \/ CameraGranted
  \/ CameraFailed
  \/ CameraPlaying
  \/ \E d \in CamSizes : VideoResize(d)
  \/ DismissMessage

Spec == Init /\ [][Next]_vars

\* What the browser guarantees, and what "every request eventually settles"
\* assumes: a pending timer fires, toBlob calls back, fetch and res.json()
\* settle one way or the other.  Clicks, the camera and the dismiss timer
\* are under no obligation.
Fairness ==
  /\ \A held \in BOOLEAN : WF_vars(TimerFire(held))
  /\ WF_vars(BlobReady)
  /\ WF_vars(BlobNull)
  /\ WF_vars(FetchResolve \/ FetchReject)
  /\ WF_vars(JsonReject \/ \E data \in Responses : JsonResolve(data))

FairSpec == Spec /\ Fairness

\* The single page (lines 193-434): the same loop and camera, and the
\* register button, the list and Clear all.
SingleInit == page = "single" /\ PageInit

\* The steps of the single page: those of the loop and the camera, which
\* it shares with the multi page, and those of its other listeners.
SingleNext ==
  \/ Next
  \/ \E v \in NameValues : TypeName(v)
  \/ RegisterClick
  \/ RegBlobReady
  \/ RegBlobNull
  \/ RegFetchReject
  \/ RegRefused
  \/ \E body \in ErrorBodies : RegFailed(body)
  \/ RegAccepted
  \/ \E body \in OkBodies : RegDone(body)
  \/ RefreshClick
  \/ ListFetched
  \/ ListRejected
  \/ \E body \in ListBodies : ListParsed(body)
  \/ ClearClick
  \/ ClearRejected
  \/ ClearAnswered
  \/ ClearListFetched
  \/ ClearListRejected
  \/ \E body \in ListBodies : ClearListParsed(body)

SingleSpec == SingleInit /\ [][SingleNext]_vars

\* The renderer's functions, each applied once to arguments drawn from its
\* domain, on a page where nothing else happens; the painting of a
\* response is applied on either page.
DrawInit ==
  /\ page \in Pages
  /\ recognizing = FALSE
  /\ recogTimer = "null"
  /\ toggleText = "Start Recognizing"
  /\ timers = 0
  /\ cycles = [s \in Stages |-> 0]
  /\ surface = <<>>
  /\ drawDims = <<DefaultCanvasW, DefaultCanvasH>>
  /\ videoDims = NoSize
  /\ panel = EmptyPanel
  /\ cam = "acquiring"
  /\ message = [text |-> "", class |-> "message"]
  /\ msgTimers = 0
  /\ last = [ev |-> "load", had |-> FALSE, fit |-> FALSE]
  /\ call \in IF page = "multi"
                THEN BoxCalls \cup ColorCalls \cup LabelCalls \cup PaintCalls
                ELSE PaintCalls
  /\ nameInput = ""
  /\ personnelIdInput = ""
  /\ regs = [s \in RegStages |-> 0]
  /\ NoIdentitiesPage

DrawNext ==
  \/ MapBox
  \/ ColorFor
  \/ PlaceLabel
  \/ PaintResponse

DrawSpec == DrawInit /\ [][DrawNext]_vars

\* The page of register.js once its script has run.
RegInit ==
  /\ page = "register"
  /\ recognizing = FALSE
  /\ recogTimer = "null"
  /\ toggleText = "Start Recognizing"
  /\ timers = 0
  /\ cycles = [s \in Stages |-> 0]
  /\ surface = <<>>
  /\ drawDims = <<DefaultCanvasW, DefaultCanvasH>>
  /\ videoDims = NoSize
  /\ panel = EmptyPanel
  /\ CameraInit
  /\ last = [ev |-> "load", had |-> FALSE, fit |-> FALSE]
  /\ call = NoCall
  /\ nameInput = ""
  /\ personnelIdInput = ""
  /\ regs = [s \in RegStages |-> 0]
  /\ NoEditPanel

RegNext ==
  \/ \E v \in NameValues : TypeName(v)
  \/ \E v \in PidValues : TypePersonnelId(v)
  \/ RegisterClick
  \/ RegBlobReady
  \/ RegBlobNull
  \/ RegFetchReject
  \/ RegRefused
  \/ \E body \in ErrorBodies : RegFailed(body)
  \/ RegAccepted
  \/ CameraGranted
  \/ CameraFailed
  \/ CameraPlaying
  \/ \E d \in CamSizes : VideoResize(d)
  \/ DismissMessage

RegSpec == RegInit /\ [][RegNext]_vars

\* The register button on a page whose pending dismiss timers fire.
RegFairSpec == RegSpec /\ WF_vars(DismissMessage)

\* The identities page once its script has run: nothing selected, and the
\* first refreshFacesList() (line 64) waiting for its answer.  The script
\* assigns no class to #editPanel at load; the class the panel starts with
\* is the one the page's markup gives it, which is not part of the source,
\* so the panel starts either hidden or showing.
IdInit ==
  /\ page = "identities"
  /\ recognizing = FALSE
  /\ recogTimer = "null"
  /\ toggleText = "Start Recognizing"
  /\ timers = 0
  /\ cycles = [s \in Stages |-> 0]
  /\ surface = <<>>
  /\ drawDims = <<DefaultCanvasW, DefaultCanvasH>>
  /\ videoDims = NoSize
  /\ panel = EmptyPanel
  /\ cam = "acquiring"
  /\ message = [text |-> "", class |-> "message"]
  /\ msgTimers = 0
  /\ last = [ev |-> "load", had |-> FALSE, fit |-> FALSE]
  /\ call = NoCall
  /\ nameInput = ""
  /\ personnelIdInput = ""
  /\ regs = [s \in RegStages |-> 0]
  /\ selected = NoSelection
  /\ editHidden \in BOOLEAN
  /\ editName = ""
  /\ rows = {}
  /\ jobs = StartRefresh(NoJobs)

IdNext ==
  \/ RefreshClick
  \/ ListFetched
  \/ ListRejected
  \/ \E body \in ListBodies : ListParsed(body)
  \/ ClearClick
  \/ ClearRejected
  \/ ClearAnswered
  \/ ClearListFetched
  \/ ClearListRejected
  \/ \E body \in ListBodies : ClearListParsed(body)
  \/ \E rec \in Identities : BeginEdit(rec)
  \/ CancelEdit
  \/ \E v \in EditValues : TypeEditName(v)
  \/ SaveClick
  \/ RenameRejected
  \/ RenameRefused
  \/ \E body \in ErrorBodies : RenameFailed(body)
  \/ RenameOk
  \/ \E rec \in Identities : DeleteClick(rec)
  \/ DeleteRejected
  \/ DeleteRefused
  \/ \E body \in ErrorBodies : DeleteFailed(body)
  \/ DeleteOk
  \/ DismissMessage

IdSpec == IdInit /\ [][IdNext]_vars

\* ------------------------------------------------------------------- claims

\* C1: in every reachable state at most one timer that will invoke
\* loopRecognize is pending.
C1_AtMostOnePendingTimer == timers <= 1

\* C2: in every reachable state at most one recognition cycle (frame capture
\* plus /api/recognize request) is in flight.
C2_AtMostOneCycleInFlight == InFlight <= 1

\* C3: right after the toggle handler has switched recognition from Active
\* to Idle the render surface is empty.
C3_ToggleOffClearsSurface == last.ev = "toggleOff" => surface = <<>>

\* C3 witness: a toggle-off that found drawings on the surface while a cycle
\* was still in flight.
C3_Witness == last.ev = "toggleOff" /\ last.had /\ InFlight > 0 /\ surface = <<>>

\* C4: once recognition is Idle and every in-flight cycle has settled, the
\* render surface is empty (no stale response leaves drawings on it).
C4_IdleAndSettledIsEmpty == (~recognizing /\ InFlight = 0) => surface = <<>>

\* C5: right after the toggle handler has switched recognition from Active
\* to Idle, no timer that would invoke loopRecognize is pending.
C5_ToggleOffCancelsAllTimers == last.ev = "toggleOff" => timers = 0

\* C6: every step that ends a cycle (with detections, with none, or with an
\* error) schedules exactly one new loopRecognize timer and stores its handle
\* in recogTimer; and if recognition stays Active from some point on, cycles
\* are started by timers infinitely often.
C6_EveryCycleSchedulesNext ==
  /\ [][InFlight' < InFlight =>
          /\ timers' = timers + 1
          /\ recogTimer' = "pending"]_vars
  /\ (<>[]recognizing) => []<>(last.ev = "start")

\* C6 witness: recognition is Active and a timer has just started a cycle,
\* so an earlier cycle ended and scheduled it.
C6_Witness == last.ev = "start" /\ recognizing /\ InFlight > 0

\* C7: a step in which a cycle ends with a network or parse error leaves
\* the recognizing flag and the message element as they were and leaves the
\* next cycle scheduled.
C7_ErrorIsSwallowed ==
  [][last'.ev \in {"reject", "badJson"} =>
       /\ recognizing' = recognizing
       /\ toggleText' = toggleText
       /\ message' = message
       /\ recogTimer' = "pending"
       /\ timers' > 0]_vars

\* C7 witness: a cycle failed while recognition was Active and a message
\* was on display, and the next cycle is scheduled.
C7_Witness ==
  last.ev \in {"reject", "badJson"} /\ recognizing /\ message.text # "" /\ recogTimer = "pending"

\* C8: right after a cycle has failed (the request rejected or the body
\* could not be parsed), the render surface and the side panel's
\* current-match state are cleared.  The code does not do this: both
\* failures come before clearRect and the catch block is empty.
C8_FailureClearsDisplay ==
  last.ev \in {"reject", "badJson"} => (surface = <<>> /\ panel = EmptyPanel)

\* C9: right after a cycle whose response has an empty or absent results
\* list, the surface is empty, the name is the placeholder, the score is
\* empty and the thumbnail is hidden with its source removed.
C9_EmptyResultsClearDisplay ==
  last.ev = "empty" =>
    /\ surface = <<>>
    /\ panel.name = <<"-">>
    /\ panel.score = ""
    /\ panel.thumbHidden
    /\ panel.src = ""

\* C9 witness: an empty response arrived while an earlier cycle's boxes
\* were on the surface, and the surface and the panel are now empty.
C9_Witness == last.ev = "empty" /\ last.had /\ surface = <<>> /\ panel = EmptyPanel

\* C10: right after a cycle has drawn a rectangle and label, the surface's
\* pixel size is the video's current native size.
C10_DrawnAtVideoSize == (last.ev = "results" /\ surface # <<>>) => drawDims = videoDims

\* C10 witness: boxes were drawn over earlier ones after the camera's
\* resolution had changed since the surface was sized.
C10_Witness ==
  /\ last.ev = "results" /\ surface # <<>> /\ drawDims = videoDims
  /\ ~last.fit /\ last.had /\ cam = "ready"

\* The coordinate c of an image `from` wide, mapped onto a surface `to`
\* wide as the specification states it: floor(c * to / from), not below 0.
Mapped(c, to, from) == Max(0, (c * to) \div from)

\* What the renderer may make of it: the same, or, when c * to / from is
\* a whole number, the pixel before it (the double product c * (to / from)
\* can fall just short of that number).
Near(c, to, from) ==
  IF (c * to) % from = 0
    THEN {Mapped(c, to, from), Max(0, Mapped(c, to, from) - 1)}
    ELSE {Mapped(c, to, from)}

\* C11 as stated: for every surface size, source size and box, the rectangle
\* drawn has its corner at (max(0, floor(x1*Sw/Ow)), max(0, floor(y1*Sh/Oh)))
\* and width and height max(0, mapped x2 - mapped x1) and
\* max(0, mapped y2 - mapped y1).
C11_ExactBoxMapping ==
  (call.fn = "boxRect" /\ call.done) =>
    LET S == call.args.size
        O == call.args.source
        b == call.args.bbox IN
    call.out = << Mapped(b[1], S[1], O[1]),
                  Mapped(b[2], S[2], O[2]),
                  Max(0, Mapped(b[3], S[1], O[1]) - Mapped(b[1], S[1], O[1])),
                  Max(0, Mapped(b[4], S[2], O[2]) - Mapped(b[2], S[2], O[2])) >>

\* C11, amended: each mapped coordinate is max(0, floor(c * S / O)), or one
\* less when c * S / O is a whole number; the width and the height are the
\* differences of the mapped corners, or 0 when the corners are inverted;
\* the box [100,50,300,250] of a 640x480 image is drawn on a 1280x960
\* surface from (200,100) to (600,500).
C11_BoxMapping ==
  (call.fn = "boxRect" /\ call.done) =>
    LET S == call.args.size
        O == call.args.source
        b == call.args.bbox IN
    /\ call.out[1] \in Near(b[1], S[1], O[1])
    /\ call.out[2] \in Near(b[2], S[2], O[2])
    /\ \E x2 \in Near(b[3], S[1], O[1]) : call.out[3] = Max(0, x2 - call.out[1])
    /\ \E y2 \in Near(b[4], S[2], O[2]) : call.out[4] = Max(0, y2 - call.out[2])
    /\ (S = <<1280, 960>> /\ O = <<640, 480>> /\ b = <<100, 50, 300, 250>>)
         => call.out = <<200, 100, 400, 400>>

\* C11 witness: a box with inverted x corners whose y1 maps to the whole
\* number 13 * 480 / 416 = 15: it is drawn at y 14 with width 0.
C11_Witness ==
  /\ call.fn = "boxRect"
  /\ call.done
  /\ call.args = [size |-> <<640, 480>>, source |-> <<416, 416>>,
                  bbox |-> <<300, 13, 13, 250>>]
  /\ call.out = <<461, 14, 0, 274>>

\* The entries of a results list whose bbox is a 4-element array.
HasBox(r) == r.bbox = 4
WellFormed(rs) == SelectSeq(rs, HasBox)

\* C12: when a response is rendered, an entry whose bbox is absent or not
\* of length 4 gets no rectangle and no label and raises no error; every
\* entry with a valid bbox is drawn, in order, and the cycle ends in the
\* ordinary way, with the next one scheduled.
C12_MalformedBoxSkipped ==
  [][\A data \in Responses :
       (JsonResolve(data) /\ Outcome(data) = "results") =>
         LET drawn == IF page = "multi" THEN WellFormed(data.results)
                      ELSE WellFormed(<<data.top>>) IN
         /\ Len(surface') = Len(drawn)
         /\ \A i \in 1..Len(drawn) : surface'[i].label[1] = drawn[i].name
         /\ last'.ev = "results"
         /\ recogTimer' = "pending"
         /\ message' = message]_vars

\* C12 witness: the multi page has rendered a list whose first entry has a
\* 3-element bbox: that entry is named in the side panel, and only the
\* other entry is on the surface.
C12_Witness ==
  /\ page = "multi"
  /\ last.ev = "results"
  /\ panel.name = <<"cat">>
  /\ Len(surface) = 1
  /\ surface[1].label = <<"ann", "p1">>
  /\ recogTimer = "pending"

\* The color the claim derives from an entry's identity key: the name,
\* the bar, and the personnel id when there is one.
KeyColor(r) == colorForId(CodeUnits(r.name) \o <<Bar>> \o CodeUnits(r.pid))

\* The entries a rendered response draws.
Drawn(data) ==
  IF page = "multi" THEN WellFormed(data.results) ELSE WellFormed(<<data.top>>)

\* C13 as stated: whenever a response is rendered, each recognized entry is
\* stroked in the color derived from the hash of its identity key, each
\* other entry in the fixed gray.
C13_StrokeFromIdentityKey ==
  (call.fn = "paint" /\ call.done /\ Outcome(call.args.data) = "results") =>
    \A i \in 1..Len(Drawn(call.args.data)) :
      call.out[i].stroke = IF Drawn(call.args.data)[i].recognized
                             THEN KeyColor(Drawn(call.args.data)[i]) ELSE Gray

\* C13, amended: that holds on the multi-result page, where it makes two
\* recognized entries with the same key the same color wherever they are
\* drawn; the single-result page strokes its match in the fixed green
\* #22c55e and draws nothing for a match that is not recognized.
C13_StrokeColorByPage ==
  (call.fn = "paint" /\ call.done) =>
    LET data == call.args.data IN
    /\ Outcome(data) = "results" =>
         \A i \in 1..Len(Drawn(data)) :
           IF page = "single" THEN call.out[i].stroke = <<"#22c55e">>
           ELSE /\ call.out[i].stroke = IF Drawn(data)[i].recognized
                                          THEN KeyColor(Drawn(data)[i]) ELSE Gray
                /\ \A j \in 1..Len(Drawn(data)) :
                     (call.out[j].label = call.out[i].label
                        /\ Drawn(data)[i].recognized /\ Drawn(data)[j].recognized)
                       => call.out[j].stroke = call.out[i].stroke
    /\ (page = "single" /\ ~data.null /\ ~data.top.recognized) => call.out = <<>>

\* C13 witness: the multi page has painted two recognized entries with the
\* key "ann|p1", both in hsl(92, 80%, 55%).
C13_Witness ==
  /\ page = "multi"
  /\ call.fn = "paint"
  /\ call.done
  /\ Len(call.out) = 2
  /\ call.out[1].label = <<"ann", "p1">>
  /\ call.out[1].stroke = <<"hsl", 92, 80, 55>>
  /\ call.out[2] = call.out[1]

\* Three primes whose product exceeds 2^38: an integer of magnitude below
\* 2^38 is 0 as soon as it is 0 modulo each of them.
Moduli == {9949, 9967, 9973}

\* Whether h2 = (h1 * 31 + c) mod 2^32, seen through the residues:
\* h1 * 31 + c - h2 is t * 2^32 for one of the t it can be.
IsNextHash(h1, c, h2) ==
  /\ h2[1] \in 0..(Half - 1)
  /\ h2[2] \in 0..(Half - 1)
  /\ \E t \in 0..31 :
       \A m \in Moduli :
         (Residue(h1, m) * 31 + c + 64 * m
            - Residue(h2, m) - t * (((Half % m) * (Half % m)) % m)) % m = 0

\* C14: colorForId returns the hue h mod 360, where h starts at 0 and
\* becomes (h * 31 + code unit) mod 2^32 for each code unit of the key in
\* order; the hue is in [0, 360).
C14_HueOfRollingHash ==
  (call.fn = "colorForId" /\ call.done) =>
    LET key == call.args.key
        h(i) == HashOf(SubSeq(key, 1, i)) IN
    /\ h(0) = <<0, 0>>
    /\ \A i \in 1..Len(key) : IsNextHash(h(i - 1), key[i], h(i))
    /\ call.out[2] \in 0..359
    /\ \A m \in {8, 9, 5} : call.out[2] % m = Residue(h(Len(key)), m)

\* C14 witness: the key "aaaaaaa", whose hash has wrapped around 2^32 to
\* 3058106369, gets the hue 329.
C14_Witness ==
  /\ call.fn = "colorForId"
  /\ call.done
  /\ call.args.key = <<97, 97, 97, 97, 97, 97, 97>>
  /\ call.out = <<"hsl", 329, 80, 55>>

\* C15: when /api/register answers with a status that is not 2xx, the
\* message shows the detail text of the body, or 'Registration failed' when
\* the body has no detail or is not JSON; the name input keeps its value and
\* no further request is sent.  A click with a blank name sends no request.
C15_RegistrationFailureShown ==
  [][/\ \A body \in ErrorBodies :
          RegFailed(body) =>
            /\ message'.text = IF body.json /\ body.detail # "" THEN body.detail
                               ELSE "Registration failed"
            /\ message'.class = "message error"
            /\ nameInput' = nameInput
            /\ RegInFlight' = RegInFlight - 1
     /\ (RegisterClick /\ Trim(nameInput) = "") => regs' = regs]_vars

\* C16 as stated: the label's background rectangle is inside the surface
\* horizontally, its left edge at 0 or more and its right edge (left +
\* label width + padding) at the surface width or less, for every box
\* position and every label width.
C16_LabelInsideSurface ==
  (call.fn = "labelBox" /\ call.done) =>
    /\ call.out[1] >= 0
    /\ call.out[1] + call.out[2] <= call.args.width

\* C16, amended: the left edge is never negative; the rectangle (label
\* width + padding) ends inside the surface whenever it is no wider than
\* the surface, and starts at 0 when it is wider.
C16_LabelInsideWhenItFits ==
  (call.fn = "labelBox" /\ call.done) =>
    /\ call.out[1] >= 0
    /\ call.out[2] = call.args.metrics + 10
    /\ call.out[2] <= call.args.width => call.out[1] + call.out[2] <= call.args.width
    /\ call.out[2] > call.args.width => call.out[1] = 0

\* C16 witness: a 70-pixel label at a box 40 pixels from the right edge of
\* a 640-pixel surface is moved left to 568.
C16_Witness ==
  /\ call.fn = "labelBox"
  /\ call.done
  /\ call.args = [width |-> 640, metrics |-> 60, x1 |-> 600]
  /\ call.out = <<568, 70>>

\* C17: every response that was parsed is painted onto a cleared surface:
\* after the step the surface holds the rectangles and labels of the
\* entries this response draws, in order, and nothing else, whatever it
\* held before, whether or not the canvas was resized in the step and
\* whether or not another cycle is in flight.
C17_FullRepaint ==
  [][\A data \in Responses :
       JsonResolve(data) =>
         IF Outcome(data) = "results"
           THEN /\ Len(surface') = Len(Drawn(data))
                /\ \A i \in 1..Len(Drawn(data)) :
                     surface'[i].label =
                       IF page = "multi" /\ Drawn(data)[i].pid # ""
                         THEN <<Drawn(data)[i].name, Drawn(data)[i].pid>>
                         ELSE <<Drawn(data)[i].name>>
           ELSE surface' = <<>>]_vars

\* C17 witness: a response with the one face "bob" was painted over
\* earlier drawings, in a step that resized the canvas, while another
\* cycle was in flight.
C17_Witness ==
  /\ last.ev = "results"
  /\ last.had
  /\ ~last.fit
  /\ InFlight > 0
  /\ Len(surface) = 1
  /\ surface[1].label = <<"bob">>

\* C18: no cycle begins while recognition is Idle.  A timer that calls
\* loopRecognize while recognizing is false captures no frame, sends no
\* request, draws nothing and schedules no timer; and whenever a cycle
\* begins, recognizing is true.
C18_NoCycleWhileIdle ==
  [][/\ last'.ev = "skip" =>
          /\ ~recognizing
          /\ cycles' = cycles
          /\ timers' = timers - 1
          /\ surface' = surface /\ drawDims' = drawDims /\ panel' = panel
     /\ InFlight' > InFlight => recognizing']_vars

\* C18 witness: a timer fired while Idle, with drawings on the surface,
\* and they are still there.
C18_Witness ==
  /\ last.ev = "skip"
  /\ ~recognizing
  /\ last.had
  /\ surface # <<>>

\* C19: if recognition is toggled off and never on again, then (requests
\* settling and timers firing) from some point on no request is in flight
\* and no loopRecognize timer is pending, for good: no request is sent any
\* more.
C19_LoopQuiesces ==
  (<>[](~recognizing)) => <>[](InFlight = 0 /\ timers = 0)

\* C19 witness: Idle, nothing in flight and no timer pending, right after
\* the last timer found recognizing false.
C19_Witness ==
  /\ ~recognizing
  /\ InFlight = 0
  /\ timers = 0
  /\ last.ev = "skip"

\* The edit panel shows exactly when something is selected.
PanelShowsSelection == editHidden <=> selected = NoSelection

\* C20: on the identities page the edit panel is visible exactly when
\* something is selected, whatever was clicked and answered.  A rename
\* that succeeded and Cancel leave nothing selected and the panel hidden;
\* a rename that failed, and Save with a blank new name, leave the
\* selection and the panel as they were; Save with nothing selected sends
\* no request (and changes neither).
C20_PanelShowsSelection ==
  /\ []PanelShowsSelection
  /\ [][/\ last'.ev \in {"renamed", "cancel"} =>
             selected' = NoSelection /\ editHidden'
        /\ last'.ev \in {"renameFailed", "saveBlank", "saveNothing"} =>
             selected' = selected /\ editHidden' = editHidden
        /\ last'.ev \in {"saveBlank", "saveNothing"} => jobs' = jobs]_vars

\* C20, the part the script settles by itself: Edit, Cancel and a rename
\* that succeeded make the panel show exactly when something is selected,
\* whatever it showed before; no other step changes the panel or the
\* selection; and the effects of Save are those of C20.
C20_HandlersKeepPanelWithSelection ==
  [][/\ last'.ev \in {"edit", "cancel", "renamed"} => PanelShowsSelection'
     /\ last'.ev \notin {"edit", "cancel", "renamed"} =>
          selected' = selected /\ editHidden' = editHidden
     /\ last'.ev \in {"renamed", "cancel"} =>
          selected' = NoSelection /\ editHidden'
     /\ last'.ev \in {"saveBlank", "saveNothing"} => jobs' = jobs]_vars

\* C20, given markup that hides the panel: the panel then shows exactly
\* when something is selected, in every state.
C20_HiddenAtLoadThenAlways == editHidden => []PanelShowsSelection

\* C20 before any Edit: an identity was deleted on a freshly loaded page
\* and nothing is selected; the panel still has the class of the markup.
C20_DeleteAlone ==
  /\ last.ev = "deleted"
  /\ selected = NoSelection
  /\ ~editHidden

\* C20 witness: a rename was refused while its identity was being edited:
\* the selection is still there and the panel still shows.
C20_Witness ==
  /\ last.ev = "renameFailed"
  /\ selected # NoSelection
  /\ ~editHidden
  /\ message.text = "Rename failed"

\* A step that takes a displayed message away or changes it is either a
\* later showMessage (which sets one more timer) or the firing of the only
\* pending timer, which is then the one the message's own showMessage set.
C21_ClearedByOwnTimer ==
  [][message.text # "" =>
       \/ message' = message /\ msgTimers' = msgTimers
       \/ msgTimers' = msgTimers + 1
       \/ /\ msgTimers = 1
          /\ msgTimers' = 0
          /\ message'.text = ""]_vars

\* A message on display is followed by a moment with no message.
C21_EventuallyCleared == (message.text # "") ~> (message.text = "")

\* C21: a non-empty message shown by showMessage stays on display until a
\* later showMessage replaces it or the dismiss timer of its own call
\* clears it, never the timer of an earlier message; and, timers firing,
\* every message on display is cleared in the end.
C21_MessageKeptForItsDelay ==
  /\ C21_ClearedByOwnTimer
  /\ C21_EventuallyCleared

====
